---- MODULE Spec2Model ----
(***************************************************************************)
(* Model of src/src/types.rs of rust-cc: the C type representation.        *)
(*                                                                         *)
(*   SpecQual    the Qualifiers flag set (const / volatile / restrict)     *)
(*   SpecTag     tag records and their handles, one call at a time         *)
(*   SpecBorrow  the same cells with Ref / RefMut guards kept alive        *)
(*   SpecEq      the equality of Types, on pairs of Types drawn at start   *)
(*   SpecTrav    rendering and equality as traversals of a type graph      *)
(*                                                                         *)
(* Every specification owns a group of variables and leaves the other      *)
(* groups at their idle value.                                             *)
(***************************************************************************)
EXTENDS Integers, Sequences, FiniteSets, TLC

VARIABLES
    q,          \* Qualifiers values: name of the binding -> its field `v` (u8)
    qlast,      \* the last Qualifiers call: its operands, the values before, the result
    cells,      \* heap of tag cells: address -> the Rc<RefCell<record>> allocated there
    hs,         \* the RcRefCellPtrEq values the program holds: value -> how many
    gs,         \* the outstanding Ref / RefMut values: value -> how many
    news,       \* number of new_ref calls made so far
    panicked,   \* a panic! / failed assert! has aborted the run
    tlast,      \* the last call on a tag handle and its result
    completed,  \* the new_ref calls whose record a set_items call has completed
    ea, eb,     \* the two Types of a comparison ea == eb
    eres,       \* its outcome: "none" before it ran, "true", "false" or "panic"
    nodes,      \* the Rc<Type> allocations of a type graph, children held by index
    trec,       \* the record of the graph's struct tag
    tmode,      \* "idle", or the traversal under way ("fmt", "eq") or ended
    troot,      \* the node, or pair of nodes, the traversal started from
    tstack,     \* what the traversal has still to do, next first
    tsteps,     \* Type nodes (pairs of them for eq) it has visited
    tout        \* the text written so far, token by token

qualVars == <<q, qlast>>
tagVars == <<cells, hs, gs, news, panicked, tlast, completed>>
eqVars == <<ea, eb, eres>>
travVars == <<nodes, trec, tmode, troot, tstack, tsteps, tout>>
vars == <<q, qlast, cells, hs, gs, news, panicked, tlast, completed, ea, eb, eres,
          nodes, trec, tmode, troot, tstack, tsteps, tout>>

\* what the steps of one group leave alone
notQual == <<tagVars, eqVars, travVars>>
notTag == <<qualVars, eqVars, travVars>>
notEq == <<qualVars, tagVars, travVars>>
notTrav == <<qualVars, tagVars, eqVars>>

(***************************************************************************)
(* u8 arithmetic                                                           *)
(***************************************************************************)
U8Width == 8

RECURSIVE BitAndN(_, _, _)
BitAndN(a, b, n) ==
    IF n = 0 THEN 0
    ELSE (IF a % 2 = 1 /\ b % 2 = 1 THEN 1 ELSE 0) + 2 * BitAndN(a \div 2, b \div 2, n - 1)

RECURSIVE BitOrN(_, _, _)
BitOrN(a, b, n) ==
    IF n = 0 THEN 0
    ELSE (IF a % 2 = 1 \/ b % 2 = 1 THEN 1 ELSE 0) + 2 * BitOrN(a \div 2, b \div 2, n - 1)

\* `&` and `|` on u8
BitAnd(a, b) == BitAndN(a, b, U8Width)
BitOr(a, b) == BitOrN(a, b, U8Width)

(***************************************************************************)
(* Qualifiers (types.rs 105-128).  A value is its field v.                 *)
(***************************************************************************)
QNames == {"a", "b", "c"}

Qualifiers_new == 0

\* a slip: `+=` for `|=`
set_const_add(v) == (v + 1) % 256
set_const(v) == BitOr(v, 1)
set_volatile(v) == BitOr(v, 2)
set_restrict(v) == BitOr(v, 4)

is_const(v) == BitAnd(v, 1) # 0
is_volatile(v) == BitAnd(v, 2) # 0
is_restrict(v) == BitAnd(v, 4) # 0

\* a slip: the operands of the final comparison exchanged
is_lesser_than_swapped(v, other) == BitAnd(v, other) = other
is_lesser_than(v, other) == BitAnd(v, other) = v

merge_from(v, other) == BitOr(v, other)

QIdle == [op |-> "none", x |-> "a", y |-> "a", pre |-> [n \in QNames |-> 0], res |-> FALSE]

QualStart ==
    /\ q = [n \in QNames |-> Qualifiers_new]
    /\ qlast = QIdle

\* let mut x = Qualifiers::new();
QualNew(x) ==
    /\ q' = [q EXCEPT ![x] = Qualifiers_new]
    /\ qlast' = [op |-> "new", x |-> x, y |-> x, pre |-> q, res |-> FALSE]
    /\ UNCHANGED notQual

\* x.set_const();
QualSetConst(x) ==
    /\ q' = [q EXCEPT ![x] = set_const(q[x])]
    /\ qlast' = [op |-> "set_const", x |-> x, y |-> x, pre |-> q, res |-> FALSE]
    /\ UNCHANGED notQual

\* x.set_volatile();
QualSetVolatile(x) ==
    /\ q' = [q EXCEPT ![x] = set_volatile(q[x])]
    /\ qlast' = [op |-> "set_volatile", x |-> x, y |-> x, pre |-> q, res |-> FALSE]
    /\ UNCHANGED notQual

\* x.set_restrict();
QualSetRestrict(x) ==
    /\ q' = [q EXCEPT ![x] = set_restrict(q[x])]
    /\ qlast' = [op |-> "set_restrict", x |-> x, y |-> x, pre |-> q, res |-> FALSE]
    /\ UNCHANGED notQual

\* x.merge_from(&y);  (y may be a clone of x: Qualifiers derives Clone)
QualMergeFrom(x, y) ==
    /\ q' = [q EXCEPT ![x] = merge_from(q[x], q[y])]
    /\ qlast' = [op |-> "merge_from", x |-> x, y |-> y, pre |-> q, res |-> FALSE]
    /\ UNCHANGED notQual

\* let r = x.is_lesser_than(&y);
QualIsLesserThan(x, y) ==
    /\ q' = q
    /\ qlast' = [op |-> "is_lesser_than", x |-> x, y |-> y, pre |-> q,
                 res |-> is_lesser_than(q[x], q[y])]
    /\ UNCHANGED notQual

QualStep ==
    \/ \E x \in QNames : QualNew(x)
    \/ \E x \in QNames : QualSetConst(x)
    \/ \E x \in QNames : QualSetVolatile(x)
    \/ \E x \in QNames : QualSetRestrict(x)
    \/ \E x, y \in QNames : QualMergeFrom(x, y)
    \/ \E x, y \in QNames : QualIsLesserThan(x, y)

(***************************************************************************)
(* Tag cells (types.rs 181-227, 287-348).                                  *)
(*                                                                         *)
(* RcRefCellPtrEq<T> is Rc<RefCell<T>>: a heap allocation holding a strong *)
(* count, the RefCell borrow flag and the record.  Rc frees the allocation *)
(* when the last handle is dropped, and a later allocation may get the     *)
(* same address.  The RefCell borrow flag is 0 when unborrowed, n > 0      *)
(* under n shared borrows and -1 under an exclusive borrow.                *)
(* Option<T> is a sequence of length 0 (None) or 1 (Some).                 *)
(***************************************************************************)
MaxAddrs == 2
MaxHandles == 3
MaxGuards == 2
MaxNews == 2

Addrs == 1..MaxAddrs
\* a handle is the address it points to; origin tells which new_ref call it
\* came from, directly or through clones (not a field of the program's)
HandleVals == [ptr : Addrs, origin : 1..MaxNews]
\* a Ref (mut = FALSE) or RefMut (mut = TRUE) of the cell at ptr
GuardVals == [ptr : Addrs, mut : BOOLEAN]

Kinds == {"struct", "union", "enum"}
\* the tags the program declares: two of them share a name
TagChoices == {<<"struct", "S">>, <<"union", "S">>, <<"enum", "T">>}

None == <<>>
Some(x) == <<x>>
is_some(o) == Len(o) = 1
is_none(o) == Len(o) = 0

\* member lists handed to set_items: (type, name) pairs, or (value, name)
\* pairs for an enum
ItemChoices(kind) ==
    IF kind = "enum"
    THEN {<< <<0, "A">> >>, << <<0, "A">>, <<1, "B">> >>}
    ELSE {<< <<"int", "x">> >>, << <<"ptr", "next">>, <<"int", "v">> >>}

FreeCell == [live |-> FALSE, origin |-> 0, kind |-> "none", name |-> "",
             items |-> None, strong |-> 0, bflag |-> 0]
\* o, o2: the new_ref calls the operands of the last call came from
TIdle == [op |-> "none", o |-> 0, o2 |-> 0, res |-> FALSE, panic |-> FALSE]

RECURSIVE SumOver(_, _)
SumOver(f, S) ==
    IF S = {} THEN 0
    ELSE LET e == CHOOSE e \in S : TRUE IN f[e] + SumOver(f, S \ {e})

\* the handles and the guards the program holds
NumHandles == SumOver(hs, HandleVals)
NumGuards == SumOver(gs, GuardVals)

\* Struct::new_ref / Union::new_ref / Enum::new_ref: the record they build
Tag_new(kind, name) == [kind |-> kind, name |-> name, items |-> None]

\* Struct::is_populated / Union::is_populated / Enum::is_populated
is_populated(rec) == is_some(rec.items)

\* a slip: the assert! left out, so that a second call replaces the items
set_items_noassert(rec, items) == [ok |-> TRUE, rec |-> [rec EXCEPT !.items = Some(items)]]
\* Struct::set_items / Union::set_items / Enum::set_items:
\* assert!( self.items.is_none() ); self.items = Some(items);
set_items(rec, items) ==
    IF is_none(rec.items)
    THEN [ok |-> TRUE, rec |-> [rec EXCEPT !.items = Some(items)]]
    ELSE [ok |-> FALSE, rec |-> rec]

\* a slip: #[derive(PartialEq)] on the wrapper, which compares the records
RcRefCellPtrEq_eq_derived(x, y) ==
    /\ cells[x.ptr].kind = cells[y.ptr].kind
    /\ cells[x.ptr].name = cells[y.ptr].name
    /\ cells[x.ptr].items = cells[y.ptr].items
\* <RcRefCellPtrEq as PartialEq>::eq: Rc::ptr_eq(&self.0, &x.0)
RcRefCellPtrEq_eq(x, y) == x.ptr = y.ptr

\* a slip: borrow_mut granted whenever borrow would be
borrow_mut_allowed_lax(flag) == flag >= 0
\* RefCell::borrow_mut behind RcRefCellPtrEq::borrow_mut
borrow_mut_allowed(flag) == flag = 0

\* RefCell::borrow behind RcRefCellPtrEq::borrow
borrow_allowed(flag) == flag >= 0

TagStart ==
    /\ cells = [a \in Addrs |-> FreeCell]
    /\ hs = [x \in HandleVals |-> 0]
    /\ gs = [g \in GuardVals |-> 0]
    /\ news = 0
    /\ panicked = FALSE
    /\ tlast = TIdle
    /\ completed = {}

\* Struct::new_ref(name) (Union, Enum alike), the allocator choosing the free
\* address a
TagNewRef(kind, name, a) ==
    /\ ~panicked
    /\ news < MaxNews
    /\ NumHandles < MaxHandles
    /\ ~cells[a].live
    /\ news' = news + 1
    /\ cells' = [cells EXCEPT ![a] =
                    [live |-> TRUE, origin |-> news + 1, kind |-> Tag_new(kind, name).kind,
                     name |-> Tag_new(kind, name).name, items |-> Tag_new(kind, name).items,
                     strong |-> 1, bflag |-> 0]]
    /\ hs' = [hs EXCEPT ![[ptr |-> a, origin |-> news + 1]] = 1]
    /\ tlast' = [TIdle EXCEPT !.op = "new_ref"]
    /\ UNCHANGED <<gs, panicked, completed, notTag>>

\* a slip: clone copying the record into a cell of its own
TagCloneDeep(x) ==
    /\ ~panicked
    /\ hs[x] > 0
    /\ NumHandles < MaxHandles
    /\ \E a \in Addrs :
          /\ ~cells[a].live
          /\ cells' = [cells EXCEPT ![a] = [cells[x.ptr] EXCEPT !.strong = 1, !.bflag = 0]]
          /\ hs' = [hs EXCEPT ![[ptr |-> a, origin |-> x.origin]] = @ + 1]
    /\ tlast' = [TIdle EXCEPT !.op = "clone"]
    /\ UNCHANGED <<gs, news, panicked, completed, notTag>>
\* x.clone(): RcRefCellPtrEq(self.0.clone())
TagClone(x) ==
    /\ ~panicked
    /\ hs[x] > 0
    /\ NumHandles < MaxHandles
    /\ cells' = [cells EXCEPT ![x.ptr].strong = @ + 1]
    /\ hs' = [hs EXCEPT ![x] = @ + 1]
    /\ tlast' = [TIdle EXCEPT !.op = "clone"]
    /\ UNCHANGED <<gs, news, panicked, completed, notTag>>

\* a handle x goes out of scope: Rc drops the allocation with its last
\* handle.  A guard borrows the handle it was taken from, so a cell with a
\* live guard keeps a handle.
TagDrop(x) ==
    /\ ~panicked
    /\ hs[x] > 0
    /\ cells[x.ptr].strong = 1 => \A g \in GuardVals : g.ptr = x.ptr => gs[g] = 0
    /\ cells' = [cells EXCEPT ![x.ptr] =
                    IF @.strong = 1 THEN FreeCell ELSE [@ EXCEPT !.strong = @ - 1]]
    /\ hs' = [hs EXCEPT ![x] = @ - 1]
    /\ tlast' = [TIdle EXCEPT !.op = "drop"]
    /\ UNCHANGED <<gs, news, panicked, completed, notTag>>

\* x == y, for two handles the program holds (x itself or a clone of it
\* when they are the same value)
TagEq(x, y) ==
    /\ ~panicked
    /\ hs[x] > 0
    /\ hs[y] > 0
    /\ tlast' = [TIdle EXCEPT !.op = "eq", !.o = x.origin, !.o2 = y.origin,
                              !.res = RcRefCellPtrEq_eq(x, y)]
    /\ UNCHANGED <<cells, hs, gs, news, panicked, completed, notTag>>

\* x.borrow(), the Ref kept: panics when the cell is exclusively borrowed
TagBorrow(x) ==
    /\ ~panicked
    /\ hs[x] > 0
    /\ borrow_allowed(cells[x.ptr].bflag) => NumGuards < MaxGuards
    /\ IF borrow_allowed(cells[x.ptr].bflag)
       THEN /\ cells' = [cells EXCEPT ![x.ptr].bflag = @ + 1]
            /\ gs' = [gs EXCEPT ![[ptr |-> x.ptr, mut |-> FALSE]] = @ + 1]
            /\ tlast' = [TIdle EXCEPT !.op = "borrow"]
            /\ UNCHANGED panicked
       ELSE /\ panicked' = TRUE
            /\ tlast' = [TIdle EXCEPT !.op = "borrow", !.o = x.origin, !.panic = TRUE]
            /\ UNCHANGED <<cells, gs>>
    /\ UNCHANGED <<hs, news, completed, notTag>>

\* x.borrow_mut(), the RefMut kept: panics when the cell is borrowed at all
TagBorrowMut(x) ==
    /\ ~panicked
    /\ hs[x] > 0
    /\ borrow_mut_allowed(cells[x.ptr].bflag) => NumGuards < MaxGuards
    /\ IF borrow_mut_allowed(cells[x.ptr].bflag)
       THEN /\ cells' = [cells EXCEPT ![x.ptr].bflag = -1]
            /\ gs' = [gs EXCEPT ![[ptr |-> x.ptr, mut |-> TRUE]] = @ + 1]
            /\ tlast' = [TIdle EXCEPT !.op = "borrow_mut"]
            /\ UNCHANGED panicked
       ELSE /\ panicked' = TRUE
            /\ tlast' = [TIdle EXCEPT !.op = "borrow_mut", !.o = x.origin, !.panic = TRUE]
            /\ UNCHANGED <<cells, gs>>
    /\ UNCHANGED <<hs, news, completed, notTag>>

\* a Ref / RefMut g is dropped
TagRelease(g) ==
    /\ ~panicked
    /\ gs[g] > 0
    /\ cells' = [cells EXCEPT ![g.ptr].bflag = IF g.mut THEN 0 ELSE @ - 1]
    /\ gs' = [gs EXCEPT ![g] = @ - 1]
    /\ tlast' = [TIdle EXCEPT !.op = "release"]
    /\ UNCHANGED <<hs, news, panicked, completed, notTag>>

\* g.is_populated(), through a Ref or a RefMut
TagIsPopulated(g) ==
    /\ ~panicked
    /\ gs[g] > 0
    /\ tlast' = [TIdle EXCEPT !.op = "is_populated", !.o = cells[g.ptr].origin,
                              !.res = is_populated(cells[g.ptr])]
    /\ UNCHANGED <<cells, hs, gs, news, panicked, completed, notTag>>

\* g.set_items(items): takes &mut self, so only a RefMut reaches it
TagSetItems(g, kind, items) ==
    /\ ~panicked
    /\ gs[g] > 0
    /\ g.mut
    /\ cells[g.ptr].kind = kind
    /\ LET r == set_items(cells[g.ptr], items) IN
       /\ cells' = [cells EXCEPT ![g.ptr] = r.rec]
       /\ panicked' = ~r.ok
       /\ tlast' = [TIdle EXCEPT !.op = "set_items", !.o = cells[g.ptr].origin,
                                 !.panic = ~r.ok]
       /\ completed' = IF r.ok THEN completed \cup {cells[g.ptr].origin} ELSE completed
    /\ UNCHANGED <<hs, gs, news, notTag>>

\* let r = x.borrow().is_populated();
TagIsPopulatedVia(x) ==
    /\ ~panicked
    /\ hs[x] > 0
    /\ IF borrow_allowed(cells[x.ptr].bflag)
       THEN /\ tlast' = [TIdle EXCEPT !.op = "is_populated", !.o = x.origin,
                                      !.res = is_populated(cells[x.ptr])]
            /\ UNCHANGED panicked
       ELSE /\ panicked' = TRUE
            /\ tlast' = [TIdle EXCEPT !.op = "borrow", !.o = x.origin, !.panic = TRUE]
    /\ UNCHANGED <<cells, hs, gs, news, completed, notTag>>

\* x.borrow_mut().set_items(items);
TagSetItemsVia(x, kind, items) ==
    /\ ~panicked
    /\ hs[x] > 0
    /\ cells[x.ptr].kind = kind
    /\ IF borrow_mut_allowed(cells[x.ptr].bflag)
       THEN LET r == set_items(cells[x.ptr], items) IN
            /\ cells' = [cells EXCEPT ![x.ptr] = r.rec]
            /\ panicked' = ~r.ok
            /\ tlast' = [TIdle EXCEPT !.op = "set_items", !.o = x.origin, !.panic = ~r.ok]
            /\ completed' = IF r.ok THEN completed \cup {x.origin} ELSE completed
       ELSE /\ panicked' = TRUE
            /\ tlast' = [TIdle EXCEPT !.op = "borrow_mut", !.o = x.origin, !.panic = TRUE]
            /\ UNCHANGED <<cells, completed>>
    /\ UNCHANGED <<hs, gs, news, notTag>>

\* format!("{:?}", BaseType::Struct(x)): sr.borrow().name, the Ref dropped at
\* the end of the statement
TagDebug(x) ==
    /\ ~panicked
    /\ hs[x] > 0
    /\ IF borrow_allowed(cells[x.ptr].bflag)
       THEN /\ tlast' = [TIdle EXCEPT !.op = "debug"]
            /\ UNCHANGED panicked
       ELSE /\ panicked' = TRUE
            /\ tlast' = [TIdle EXCEPT !.op = "debug", !.o = x.origin, !.panic = TRUE]
    /\ UNCHANGED <<cells, hs, gs, news, completed, notTag>>

\* declarations, clones, comparisons and completions, each borrow ended
\* within its statement
TagStep ==
    \/ \E t \in TagChoices, a \in Addrs : TagNewRef(t[1], t[2], a)
    \/ \E x \in HandleVals : TagClone(x)
    \/ \E x \in HandleVals : TagDrop(x)
    \/ \E x, y \in HandleVals : TagEq(x, y)
    \/ \E x \in HandleVals : TagIsPopulatedVia(x)
    \/ \E x \in HandleVals, kind \in Kinds : \E items \in ItemChoices(kind) :
          TagSetItemsVia(x, kind, items)

\* borrows that outlive their statement, on struct cells
BorrowStep ==
    \/ \E a \in Addrs : TagNewRef("struct", "S", a)
    \/ \E x \in HandleVals : TagClone(x)
    \/ \E x \in HandleVals : TagDrop(x)
    \/ \E x \in HandleVals : TagBorrow(x)
    \/ \E x \in HandleVals : TagBorrowMut(x)
    \/ \E g \in GuardVals : TagRelease(g)
    \/ \E g \in GuardVals : TagIsPopulated(g)
    \/ \E g \in GuardVals : \E items \in ItemChoices("struct") :
          TagSetItems(g, "struct", items)
    \/ \E x \in HandleVals : TagDebug(x)

(***************************************************************************)
(* Types and their equality (types.rs 6-82).                               *)
(*                                                                         *)
(* An Rc<Type> is [rc, bt, q]: rc names the allocation, bt is the BaseType *)
(* and q the Qualifiers.  A BaseType is a tuple headed by its variant.     *)
(* A comparison yields "true" or "false", or "panic" when it aborts; the   *)
(* derived PartialEq impls compare the enum variants first and then the    *)
(* fields in declaration order, stopping at the first that differs.        *)
(***************************************************************************)
MaxArgs == 2

\* Type::new_ref(basetype, qualifiers), allocated at rc
Type_new_ref(basetype, qualifiers, rc) == [rc |-> rc, bt |-> basetype, q |-> qualifiers]
\* Type::new_ref_bare(basetype)
Type_new_ref_bare(basetype, rc) == Type_new_ref(basetype, Qualifiers_new, rc)

Bool3(b) == IF b THEN "true" ELSE "false"
\* a && b
AndThen(a, b) == IF a = "true" THEN b ELSE a

\* <ArraySizeExpr as PartialEq>::eq: panic!("TODO: eq for ArraySizeExpr ...")
ArraySizeExpr_eq(x, y) == "panic"

\* a slip: two Expr sizes taken as equal instead of refused
ArraySize_eq_lenient(s, t) ==
    IF s[1] # t[1] THEN "false"
    ELSE IF s[1] = "Fixed" THEN Bool3(s[2] = t[2])
    ELSE "true"
\* #[derive(PartialEq)] enum ArraySize
ArraySize_eq(s, t) ==
    IF s[1] # t[1] THEN "false"
    ELSE CASE s[1] = "None" -> "true"
           [] s[1] = "Fixed" -> Bool3(s[2] = t[2])
           [] s[1] = "Expr" -> ArraySizeExpr_eq(s[2], t[2])

\* #[derive(PartialEq)] struct Qualifiers
Qualifiers_eq(x, y) == Bool3(x = y)

RECURSIVE Type_eq(_, _), BaseType_eq(_, _), FunctionType_eq(_, _), ArgsAll(_, _, _)

\* a slip: the pointee compared as a function parameter is, by base type only
Pointer_eq_baseonly(x, y) == BaseType_eq(x.bt, y.bt)
\* BaseType::Pointer(Rc<Type>): Rc compares the pointees
Pointer_eq(x, y) == Type_eq(x, y)

\* a slip: the whole parameter Type compared, its own qualifiers included
Arg_eq_full(a, b) == Type_eq(a[1], b[1])
\* |(a,b)| a.0.basetype == b.0.basetype
Arg_eq(a, b) == BaseType_eq(a[1].bt, b[1].bt)

\* Iterator::zip( self.args.iter(), v.args.iter() ).all( ... ), from pair i
ArgsAll(xs, ys, i) ==
    IF i > Len(xs) \/ i > Len(ys) THEN "true"
    ELSE AndThen(Arg_eq(xs[i], ys[i]), ArgsAll(xs, ys, i + 1))

\* <FunctionType as PartialEq>::eq
FunctionType_eq(f, g) ==
    AndThen(Type_eq(f.ret, g.ret),
            AndThen(Bool3(Len(f.args) = Len(g.args)), ArgsAll(f.args, g.args, 1)))

\* #[derive(PartialEq)] enum BaseType
BaseType_eq(x, y) ==
    IF x[1] # y[1] THEN "false"
    ELSE CASE x[1] \in {"Void", "Bool"} -> "true"
           [] x[1] \in {"Struct", "Enum", "Union"} -> Bool3(RcRefCellPtrEq_eq(x[2], y[2]))
           [] x[1] \in {"Float", "Integer", "MagicType"} -> Bool3(x[2] = y[2])
           [] x[1] = "Pointer" -> Pointer_eq(x[2], y[2])
           [] x[1] = "Array" -> AndThen(Type_eq(x[2], y[2]), ArraySize_eq(x[3], y[3]))
           [] x[1] = "Function" -> FunctionType_eq(x[2], y[2])

\* #[derive(PartialEq)] struct Type { basetype, qualifiers }
Type_eq(x, y) == AndThen(BaseType_eq(x.bt, y.bt), Qualifiers_eq(x.q, y.q))

(* The Types compared.  The left one is built at allocation 1; the right   *)
(* one is the left one itself or a Type built apart, at allocation 2.      *)
QNone == Qualifiers_new
QConst == set_const(Qualifiers_new)
EqQuals == {QNone, QConst}

\* handles of two struct tags declared apart
TagS1 == [ptr |-> 1, origin |-> 1]
TagS2 == [ptr |-> 2, origin |-> 2]

IntT == <<"Integer", <<"Int", "Signed">> >>
UIntT == <<"Integer", <<"Int", "Unsigned">> >>

LeafBases == {<<"Void">>, IntT, UIntT, <<"Float", "Double">>, <<"Struct", TagS1>>,
              <<"Struct", TagS2>>, <<"Union", TagS1>>}
Sizes == {<<"None">>, <<"Fixed", 5>>, <<"Fixed", 3>>, <<"Expr", "n">>, <<"Expr", "m">>}

Leaves(rc) == {Type_new_ref(b, qq, rc) : b \in LeafBases, qq \in EqQuals}
IntLeaves(rc) == {Type_new_ref(IntT, qq, rc) : qq \in EqQuals}
Pointers(ts, rc) == {Type_new_ref(<<"Pointer", t>>, qq, rc) : t \in ts, qq \in EqQuals}
Arrays(ts, szs, rc) ==
    {Type_new_ref(<<"Array", t, sz>>, qq, rc) : t \in ts, sz \in szs, qq \in EqQuals}

DataTypes(rc) ==
    Leaves(rc) \cup Pointers(Leaves(rc), rc) \cup Arrays(Leaves(rc), Sizes, rc)
        \cup Pointers(Pointers(IntLeaves(rc), rc), rc)
        \cup Arrays(Arrays(IntLeaves(rc), {<<"Fixed", 5>>, <<"Expr", "n">>}, rc),
                    {<<"Fixed", 3>>, <<"Expr", "n">>, <<"Expr", "m">>}, rc)

ArgTypes(rc) == IntLeaves(rc) \cup {Type_new_ref_bare(<<"Pointer", t>>, rc) : t \in IntLeaves(rc)}
ArgLists(rc, names) ==
    UNION {[1..n -> ArgTypes(rc) \X names] : n \in 0..MaxArgs}
Functions(rc, names) ==
    {Type_new_ref_bare(<<"Function", [ret |-> r, args |-> a]>>, rc) :
        r \in IntLeaves(rc), a \in ArgLists(rc, names)}

EqPairs ==
    {<<t, t>> : t \in DataTypes(1)}
        \cup (DataTypes(1) \X DataTypes(2))
        \cup (Functions(1, {"a"}) \X Functions(2, {"a", "b"}))

EqIdle ==
    /\ ea = Type_new_ref_bare(<<"Void">>, 1)
    /\ eb = Type_new_ref_bare(<<"Void">>, 1)
    /\ eres = "none"

EqStart ==
    /\ \E p \in EqPairs : ea = p[1] /\ eb = p[2]
    /\ eres = "none"

\* let r = ea == eb;
EqCompare ==
    /\ eres = "none"
    /\ Type_eq(ea, eb) # "panic"
    /\ eres' = Type_eq(ea, eb)
    /\ UNCHANGED <<ea, eb, notEq>>

\* ea == eb reaches panic!
EqComparePanics ==
    /\ eres = "none"
    /\ Type_eq(ea, eb) = "panic"
    /\ eres' = "panic"
    /\ UNCHANGED <<ea, eb, notEq>>

EqStep ==
    \/ EqCompare
    \/ EqComparePanics

(***************************************************************************)
(* Traversals of a type graph (types.rs 6-30, 74-82, 229-270), one Type    *)
(* node at a time.  The graph is built by Type::new_ref over the nodes     *)
(* that exist, so it is acyclic until set_items closes a cycle through the *)
(* struct tag.  A traversal keeps a stack of what follows the node in      *)
(* hand: the call stack of the recursive fmt and eq.                       *)
(***************************************************************************)
MaxNodes == 2
MaxItems == 1

NodeIds == 1..Len(nodes)
ArgNames == <<"a", "b", "c", "d">>
ItemNames == <<"next", "v", "w", "x">>

\* lists of (TypeRef, String) of up to n entries over the nodes that exist
PairLists(n, names) ==
    UNION {{[i \in 1..k |-> <<a[i], names[i]>>] : a \in [1..k -> NodeIds]} : k \in 0..n}

DecDigits == <<"0", "1", "2", "3", "4", "5", "6", "7", "8", "9">>
RECURSIVE Dec(_)
\* {} of an unsigned number
Dec(n) == IF n < 10 THEN DecDigits[n + 1] ELSE Dec(n \div 10) \o DecDigits[(n % 10) + 1]

\* {:?} of a String
Quoted(str) == <<"\"", str, "\"">>

\* <Qualifiers as Debug>::fmt
Qualifiers_fmt(v) ==
    (IF is_const(v) THEN <<"const ">> ELSE <<>>)
        \o (IF is_volatile(v) THEN <<"volatile ">> ELSE <<>>)
        \o (IF is_restrict(v) THEN <<"restrict ">> ELSE <<>>)

\* <ArraySize as Display>::fmt
ArraySize_fmt(sz) ==
    CASE sz[1] = "None" -> <<"[]">>
      [] sz[1] = "Fixed" -> <<"[", Dec(sz[2]), "]">>
      [] sz[1] = "Expr" -> <<"[", sz[2], "]">>

Lit(toks) == [i \in 1..Len(toks) |-> <<"lit", toks[i]>>]

RECURSIVE FmtPairs(_, _)
\* {:?} of a Vec<(TypeRef, String)> from entry i on
FmtPairs(list, i) ==
    IF i > Len(list) THEN Lit(<<"]">>)
    ELSE Lit(IF i = 1 THEN <<"(">> ELSE <<", ", "(">>)
            \o << <<"type", list[i][1]>> >>
            \o Lit(<<", ">> \o Quoted(list[i][2]) \o <<")">>)
            \o FmtPairs(list, i + 1)

FmtVec(list) == Lit(<<"[">>) \o FmtPairs(list, 1)

\* a slip: the whole record written ({:?} of *sr.borrow()), its derived
\* Debug writing the items and their Types
FmtTag_whole(rec) ==
    Lit(<<rec.kind, " ", "Struct { name: ">> \o Quoted(rec.name) \o <<", items: ">>)
        \o (IF is_none(rec.items) THEN Lit(<<"None">>)
            ELSE Lit(<<"Some(">>)
                    \o FmtVec(rec.items[1]) \o Lit(<<")">>))
        \o Lit(<<" }">>)
\* write!(fmt, "struct {:?}", sr.borrow().name)
FmtTag(rec) == Lit(<<rec.kind, " ">> \o Quoted(rec.name))

\* <BaseType as Debug>::fmt: what one node writes, and the nodes it goes on to
FmtBase(bt) ==
    CASE bt[1] = "Void" -> Lit(<<"void">>)
      [] bt[1] = "Bool" -> Lit(<<"_Bool">>)
      [] bt[1] \in {"Struct", "Union", "Enum"} -> FmtTag(trec)
      [] bt[1] = "Float" -> Lit(<<bt[2]>>)
      [] bt[1] = "Integer" -> Lit(<<bt[2][1], "(", bt[2][2], ")">>)
      [] bt[1] = "MagicType" -> Lit(<<"/*magic*/ ", bt[2]>>)
      [] bt[1] = "Array" -> << <<"type", bt[2]>> >> \o Lit(ArraySize_fmt(bt[3]))
      [] bt[1] = "Pointer" -> Lit(<<"*">>) \o << <<"type", bt[2]>> >>
      [] bt[1] = "Function" ->
            Lit(<<"Fcn(">>) \o << <<"type", bt[2].ret>> >> \o Lit(<<", ">>)
                \o FmtVec(bt[2].args) \o Lit(<<")">>)

\* <Type as Debug>::fmt: write!(fmt, "{:?}{:?}", self.qualifiers, self.basetype)
FmtType(n) == Lit(Qualifiers_fmt(nodes[n].q)) \o FmtBase(nodes[n].bt)

RECURSIVE LitsAhead(_)
\* the tokens on top of the stack, up to the next Type node
LitsAhead(st) ==
    IF st # <<>> /\ st[1][1] = "lit" THEN <<st[1][2]>> \o LitsAhead(Tail(st)) ELSE <<>>

RECURSIVE DropLits(_)
DropLits(st) == IF st # <<>> /\ st[1][1] = "lit" THEN DropLits(Tail(st)) ELSE st

MinOf(m, n) == IF m < n THEN m ELSE n

\* the checks of one pair of Types, in the order the derived eq makes them;
\* full = FALSE for a function parameter, compared by base type alone
EqPair(a, b, full) ==
    LET x == nodes[a].bt
        y == nodes[b].bt
        quals == IF full THEN << <<"quals", a, b>> >> ELSE <<>>
    IN IF x[1] # y[1] THEN << <<"fail">> >>
       ELSE CASE x[1] \in {"Void", "Bool"} -> quals
              [] x[1] \in {"Struct", "Enum", "Union"} ->
                    (IF RcRefCellPtrEq_eq(x[2], y[2]) THEN <<>> ELSE << <<"fail">> >>) \o quals
              [] x[1] \in {"Float", "Integer", "MagicType"} ->
                    (IF x[2] = y[2] THEN <<>> ELSE << <<"fail">> >>) \o quals
              [] x[1] = "Pointer" -> << <<"cmp", x[2], y[2], TRUE>> >> \o quals
              [] x[1] = "Array" ->
                    << <<"cmp", x[2], y[2], TRUE>>, <<"size", x[3], y[3]>> >> \o quals
              [] x[1] = "Function" ->
                    << <<"cmp", x[2].ret, y[2].ret, TRUE>>,
                       <<"len", Len(x[2].args), Len(y[2].args)>> >>
                        \o [i \in 1..MinOf(Len(x[2].args), Len(y[2].args)) |->
                               <<"cmp", x[2].args[i][1], y[2].args[i][1], FALSE>>]
                        \o quals

\* one check that is no visit of a pair: "true", "false" or "panic"
EqCheck(item) ==
    CASE item[1] = "fail" -> "false"
      [] item[1] = "quals" -> Qualifiers_eq(nodes[item[2]].q, nodes[item[3]].q)
      [] item[1] = "size" -> ArraySize_eq(item[2], item[3])
      [] item[1] = "len" -> Bool3(item[2] = item[3])

RECURSIVE EqRun(_)
\* the checks on top of the stack are made until one fails or the next pair
\* of Types is on top: the stack left, and "true" while nothing has failed
EqRun(st) ==
    IF st = <<>> \/ st[1][1] = "cmp" THEN [st |-> st, res |-> "true"]
    ELSE IF EqCheck(st[1]) = "true" THEN EqRun(Tail(st))
    ELSE [st |-> <<>>, res |-> EqCheck(st[1])]

TravIdle ==
    /\ tmode = "idle"
    /\ troot = <<>>
    /\ tstack = <<>>
    /\ tsteps = 0
    /\ tout = <<>>

TravStart ==
    /\ nodes = <<>>
    /\ trec = Tag_new("struct", "S")
    /\ TravIdle

\* Type::new_ref(basetype, qualifiers): the node is added to the graph
NewNode(bt, qq) ==
    /\ tmode = "idle"
    /\ Len(nodes) < MaxNodes
    /\ nodes' = Append(nodes, Type_new_ref(bt, qq, Len(nodes) + 1))
    /\ UNCHANGED <<trec, tmode, troot, tstack, tsteps, tout, notTrav>>

\* Type::new_ref(BaseType::Integer(IntClass::int()), qualifiers)
TravNewInt(qq) == NewNode(IntT, qq)

\* Type::new_ref_bare(BaseType::Struct(tag.clone()))
TravNewStruct == NewNode(<<"Struct", TagS1>>, Qualifiers_new)

\* Type::new_ref_bare(BaseType::Pointer(nodes[n].clone()))
TravNewPointer(n) == NewNode(<<"Pointer", n>>, Qualifiers_new)

\* Type::new_ref_bare(BaseType::Array(nodes[n].clone(), size))
TravNewArray(n, size) == NewNode(<<"Array", n, size>>, Qualifiers_new)

\* Type::new_ref_bare(BaseType::Function(FunctionType { ret, args }))
TravNewFunction(r, args) == NewNode(<<"Function", [ret |-> r, args |-> args]>>, Qualifiers_new)

\* tag.borrow_mut().set_items(items)
TravSetItems(items) ==
    /\ tmode = "idle"
    /\ IF set_items(trec, items).ok
       THEN /\ trec' = set_items(trec, items).rec
            /\ UNCHANGED tmode
       ELSE /\ tmode' = "panic"
            /\ UNCHANGED trec
    /\ UNCHANGED <<nodes, troot, tstack, tsteps, tout, notTrav>>

\* format!("{:?}", nodes[n]) is entered
TravFmtStart(n) ==
    /\ tmode = "idle"
    /\ tmode' = "fmt"
    /\ troot' = <<n>>
    /\ tstack' = << <<"type", n>> >>
    /\ tsteps' = 0
    /\ tout' = <<>>
    /\ UNCHANGED <<nodes, trec, notTrav>>

\* <Type as Debug>::fmt runs on the node on top of the stack, and what it
\* writes up to the next node is written
TravFmtStep ==
    /\ tmode = "fmt"
    /\ tstack # <<>>
    /\ LET st == FmtType(tstack[1][2]) \o Tail(tstack) IN
       /\ tout' = tout \o LitsAhead(st)
       /\ tstack' = DropLits(st)
       /\ tmode' = IF DropLits(st) = <<>> THEN "fmt_done" ELSE "fmt"
    /\ tsteps' = tsteps + 1
    /\ UNCHANGED <<nodes, trec, troot, notTrav>>

\* nodes[a] == nodes[b] is entered
TravEqStart(a, b) ==
    /\ tmode = "idle"
    /\ tmode' = "eq"
    /\ troot' = <<a, b>>
    /\ tstack' = << <<"cmp", a, b, TRUE>> >>
    /\ tsteps' = 0
    /\ tout' = <<>>
    /\ UNCHANGED <<nodes, trec, notTrav>>

\* the derived eq runs on the pair on top of the stack, up to the next pair
TravEqStep ==
    /\ tmode = "eq"
    /\ tstack # <<>>
    /\ LET r == EqRun(EqPair(tstack[1][2], tstack[1][3], tstack[1][4]) \o Tail(tstack)) IN
       /\ tstack' = r.st
       /\ tmode' = IF r.res = "false" THEN "eq_false"
                    ELSE IF r.res = "panic" THEN "eq_panic"
                    ELSE IF r.st = <<>> THEN "eq_true" ELSE "eq"
    /\ tsteps' = tsteps + 1
    /\ UNCHANGED <<nodes, trec, troot, tout, notTrav>>

\* the result is used and the program goes on
TravReturn ==
    /\ tmode \in {"fmt_done", "eq_true", "eq_false"}
    /\ tmode' = "idle"
    /\ troot' = <<>>
    /\ tstack' = <<>>
    /\ tsteps' = 0
    /\ tout' = <<>>
    /\ UNCHANGED <<nodes, trec, notTrav>>

TravStep ==
    \/ \E qq \in EqQuals : TravNewInt(qq)
    \/ TravNewStruct
    \/ \E n \in NodeIds : TravNewPointer(n)
    \/ \E n \in NodeIds, size \in {<<"Fixed", 5>>, <<"Expr", "n">>} : TravNewArray(n, size)
    \/ \E r \in NodeIds, args \in PairLists(MaxArgs, ArgNames) : TravNewFunction(r, args)
    \/ \E items \in PairLists(MaxItems, ItemNames) : TravSetItems(items)
    \/ \E n \in NodeIds : TravFmtStart(n)
    \/ TravFmtStep
    \/ \E a, b \in NodeIds : TravEqStart(a, b)
    \/ TravEqStep
    \/ TravReturn

(***************************************************************************)
(* Specifications                                                          *)
(***************************************************************************)
Init == QualStart /\ TagStart /\ EqIdle /\ TravStart

SpecQual == Init /\ [][QualStep]_vars

SpecTag == Init /\ [][TagStep]_vars

SpecBorrow == Init /\ [][BorrowStep]_vars

EqInit == QualStart /\ TagStart /\ EqStart /\ TravStart
SpecEq == EqInit /\ [][EqStep]_vars

SpecTrav == Init /\ [][TravStep]_vars

(***************************************************************************)
(* Claims about Qualifiers                                                 *)
(***************************************************************************)
FlagNames == {"const", "volatile", "restrict"}

\* the flags a value reports through its three queries
Flags(v) ==
    {f \in FlagNames : \/ f = "const" /\ is_const(v)
                       \/ f = "volatile" /\ is_volatile(v)
                       \/ f = "restrict" /\ is_restrict(v)}

QOthersKept(x) == \A n \in QNames \ {x} : q[n] = qlast.pre[n]

\* C8: a.is_lesser_than(b) is true iff every flag set in a is set in b; the
\* relation is reflexive, transitive and anti-symmetric (for a proper superset
\* b of a it holds from a to b and not from b to a); the call changes neither
\* operand.
C8_IsLesserThanIsSubset ==
    /\ qlast.op = "is_lesser_than" =>
          /\ qlast.res = (Flags(q[qlast.x]) \subseteq Flags(q[qlast.y]))
          /\ q = qlast.pre
    /\ \A x \in QNames : is_lesser_than(q[x], q[x])
    /\ \A x, y, z \in QNames :
          is_lesser_than(q[x], q[y]) /\ is_lesser_than(q[y], q[z])
              => is_lesser_than(q[x], q[z])
    /\ \A x, y \in QNames :
          (Flags(q[x]) \subseteq Flags(q[y]) /\ Flags(q[x]) # Flags(q[y]))
              => is_lesser_than(q[x], q[y]) /\ ~is_lesser_than(q[y], q[x])

\* {const} was compared with its proper superset {const, restrict}
C8_Witness ==
    /\ qlast.op = "is_lesser_than"
    /\ qlast.x # qlast.y
    /\ Flags(q[qlast.x]) = {"const"}
    /\ Flags(q[qlast.y]) = {"const", "restrict"}
    /\ qlast.res

QSetterFlag(op) ==
    CASE op = "set_const" -> "const"
      [] op = "set_volatile" -> "volatile"
      [] op = "set_restrict" -> "restrict"

QSetterAgain(op, v) ==
    CASE op = "set_const" -> set_const(v)
      [] op = "set_volatile" -> set_volatile(v)
      [] op = "set_restrict" -> set_restrict(v)

\* C9: Qualifiers::new() has no flag; each setter adds exactly its own flag
\* and is idempotent; a.merge_from(b) makes a the union of a and b, leaves b
\* alone and is idempotent; every value is one of the 8 subsets of the flags.
C9_SettersOnlyAddFlags ==
    /\ \A n \in QNames : q[n] \in 0..7
    /\ qlast.op = "new" => Flags(q[qlast.x]) = {} /\ q[qlast.x] = 0 /\ QOthersKept(qlast.x)
    /\ qlast.op \in {"set_const", "set_volatile", "set_restrict"} =>
          /\ Flags(q[qlast.x]) = Flags(qlast.pre[qlast.x]) \cup {QSetterFlag(qlast.op)}
          /\ QSetterAgain(qlast.op, q[qlast.x]) = q[qlast.x]
          /\ QOthersKept(qlast.x)
    /\ qlast.op = "merge_from" =>
          /\ Flags(q[qlast.x]) = Flags(qlast.pre[qlast.x]) \cup Flags(qlast.pre[qlast.y])
          /\ merge_from(q[qlast.x], qlast.pre[qlast.y]) = q[qlast.x]
          /\ qlast.pre[qlast.x] = qlast.pre[qlast.y] => q[qlast.x] = qlast.pre[qlast.x]
          /\ QOthersKept(qlast.x)

\* {const} has taken {volatile, restrict} in by merge_from and holds all
\* three flags
C9_Witness ==
    /\ qlast.op = "merge_from"
    /\ qlast.x # qlast.y
    /\ Flags(qlast.pre[qlast.x]) = {"const"}
    /\ Flags(qlast.pre[qlast.y]) = {"volatile", "restrict"}
    /\ q[qlast.x] = 7

(***************************************************************************)
(* Claims about tag records and their handles                              *)
(***************************************************************************)
LiveCells == {a \in Addrs : cells[a].live}
HeldHandles == {x \in HandleVals : hs[x] > 0}
CellOf(o) == {a \in LiveCells : cells[a].origin = o}

\* one step keeps the items of every record that has them, and a set_items
\* call that finds items present aborts and changes no record
ItemsKept ==
    /\ \A a \in Addrs :
          (/\ cells[a].live /\ cells'[a].live
           /\ cells'[a].origin = cells[a].origin
           /\ is_some(cells[a].items))
              => cells'[a].items = cells[a].items
    /\ (/\ tlast'.op = "set_items"
        /\ \E a \in CellOf(tlast'.o) : is_some(cells[a].items))
           => panicked' /\ tlast'.panic /\ cells' = cells

\* C1: the items of a Struct, Union or Enum record go from absent to present
\* at most once and are never cleared or replaced: set_items on a record
\* that has items aborts and leaves the items of the first call in place.
C1_ItemsSetOnce == [][ItemsKept]_vars

\* a second set_items call on a completed union has aborted
C1_Witness ==
    /\ panicked
    /\ tlast.op = "set_items"
    /\ tlast.panic
    /\ \E a \in CellOf(tlast.o) : cells[a].kind = "union" /\ is_some(cells[a].items)

\* C2: two handles are equal iff they come, directly or through clones, from
\* the same new_ref call; neither the name nor the items of the records
\* count.
C2_HandleEqIsIdentity ==
    /\ \A x, y \in HeldHandles : RcRefCellPtrEq_eq(x, y) <=> x.origin = y.origin
    /\ tlast.op = "eq" => (tlast.res <=> tlast.o = tlast.o2)

\* two handles from two new_ref calls with one kind and name, their records
\* alike, have compared unequal
C2_Witness ==
    /\ tlast.op = "eq"
    /\ ~tlast.res
    /\ \E x, y \in HeldHandles :
          /\ x.origin = tlast.o /\ y.origin = tlast.o2
          /\ x.ptr # y.ptr
          /\ cells[x.ptr].kind = cells[y.ptr].kind
          /\ cells[x.ptr].name = cells[y.ptr].name
          /\ cells[x.ptr].items = cells[y.ptr].items

\* C3: an exclusive borrow of a cell is the only borrow of that cell: a
\* borrow_mut asked for while the cell is borrowed, and a borrow asked for
\* while it is exclusively borrowed, abort; shared borrows of one cell and
\* borrows of different cells do not conflict.
C3_ExclusiveBorrowAlone ==
    /\ \A a \in Addrs :
          /\ gs[[ptr |-> a, mut |-> TRUE]] <= 1
          /\ gs[[ptr |-> a, mut |-> TRUE]] = 1 => gs[[ptr |-> a, mut |-> FALSE]] = 0
    /\ (panicked /\ tlast.op = "borrow_mut") =>
          \E a \in CellOf(tlast.o) : \E g \in GuardVals : g.ptr = a /\ gs[g] > 0
    /\ (panicked /\ tlast.op \in {"borrow", "debug"}) =>
          \E a \in CellOf(tlast.o) : gs[[ptr |-> a, mut |-> TRUE]] > 0
    /\ panicked => tlast.op \in {"borrow", "borrow_mut", "debug", "set_items"}

\* with two shared borrows of a cell live together, a borrow_mut of that cell
\* through one of its two handles has aborted
C3_Witness ==
    /\ panicked
    /\ tlast.op = "borrow_mut"
    /\ \E x \in HeldHandles :
          /\ x.origin = tlast.o
          /\ hs[x] = 2
          /\ gs[[ptr |-> x.ptr, mut |-> FALSE]] = 2

\* C7: all clones of a handle see one record: is_populated is false from
\* new_ref until the first successful set_items through any clone and true
\* from then on; set_items on one record does not complete another; clone,
\* equality and is_populated do not fail on an incomplete record.
C7_CompletionSeenByAllClones ==
    /\ \A x \in HeldHandles : is_populated(cells[x.ptr]) <=> x.origin \in completed
    /\ tlast.op = "is_populated" => (tlast.res <=> tlast.o \in completed)
    /\ panicked => tlast.op = "set_items" /\ tlast.o \in completed

\* is_populated has answered true for a record held through two handles,
\* while a second record is incomplete
C7_Witness ==
    /\ tlast.op = "is_populated"
    /\ tlast.res
    /\ \E x, y \in HeldHandles :
          /\ x.origin = tlast.o
          /\ hs[x] = 2
          /\ y.origin # x.origin
          /\ ~is_populated(cells[y.ptr])

(***************************************************************************)
(* Claims about Type equality                                              *)
(***************************************************************************)
RECURSIVE StripT(_), StripB(_)
\* a Type and a BaseType without the names of their allocations
StripT(t) == [bt |-> StripB(t.bt), q |-> t.q]
StripB(b) ==
    CASE b[1] = "Pointer" -> <<"Pointer", StripT(b[2])>>
      [] b[1] = "Array" -> <<"Array", StripT(b[2]), b[3]>>
      [] b[1] = "Function" ->
            <<"Function", [ret |-> StripT(b[2].ret),
                           args |-> [i \in 1..Len(b[2].args) |->
                                        <<StripT(b[2].args[i][1]), b[2].args[i][2]>>]]>>
      [] OTHER -> b

IsFn(t) == t.bt[1] = "Function"
IsExprArray(t) == t.bt[1] = "Array" /\ t.bt[3][1] = "Expr"
BothExprArrays == IsExprArray(ea) /\ IsExprArray(eb)

RECURSIVE ExprSizesMeet(_, _)
\* two Expr sizes stand at the same place of the two Types
ExprSizesMeet(x, y) ==
    CASE x.bt[1] = "Pointer" /\ y.bt[1] = "Pointer" -> ExprSizesMeet(x.bt[2], y.bt[2])
      [] x.bt[1] = "Array" /\ y.bt[1] = "Array" ->
            (x.bt[3][1] = "Expr" /\ y.bt[3][1] = "Expr") \/ ExprSizesMeet(x.bt[2], y.bt[2])
      [] OTHER -> FALSE

\* C4: two FunctionTypes are equal iff their return Types are fully equal,
\* their argument counts are equal and the base types of their parameters are
\* equal pair by pair; parameter names and the qualifiers on a parameter's
\* own Type do not count, qualifiers below it do.
C4_FunctionEqIgnoresParamQualifiers ==
    (IsFn(ea) /\ IsFn(eb) /\ eres # "none") =>
        LET f == ea.bt[2]
            g == eb.bt[2]
        IN /\ eres \in {"true", "false"}
           /\ eres = "true" <=>
                 /\ StripT(f.ret) = StripT(g.ret)
                 /\ Len(f.args) = Len(g.args)
                 /\ \A i \in 1..Len(f.args) :
                       i <= Len(g.args) => StripB(f.args[i][1].bt) = StripB(g.args[i][1].bt)

\* two functions of two parameters compared equal although a parameter is
\* const on one side only and named differently, and another is a pointer
C4_Witness ==
    /\ IsFn(ea) /\ IsFn(eb)
    /\ eres = "true"
    /\ Len(ea.bt[2].args) = 2
    /\ \E i \in 1..2 :
          /\ ea.bt[2].args[i][1].q # eb.bt[2].args[i][1].q
          /\ ea.bt[2].args[i][2] # eb.bt[2].args[i][2]
    /\ \E i \in 1..2 : ea.bt[2].args[i][1].bt[1] = "Pointer"

C6_StructuralEq ==
    (~IsFn(ea) /\ ~IsFn(eb) /\ eres # "none") =>
        /\ eres \in {"true", "false"} => (eres = "true" <=> StripT(ea) = StripT(eb))
        /\ eres = "panic" => ExprSizesMeet(ea, eb)

\* two int[5] Types built apart compared equal
C6_Witness ==
    /\ eres = "true"
    /\ ea.rc # eb.rc
    /\ ea.bt[1] = "Array" /\ eb.bt[1] = "Array"
    /\ ea.bt[2].rc # eb.bt[2].rc
    /\ ea.bt[2].bt = IntT
    /\ ea.bt[3] = <<"Fixed", 5>>


(***************************************************************************)
(* Claims about traversals                                                 *)
(***************************************************************************)
\* the Types a node holds, in the order it holds them, a Type held twice
\* standing twice; a tag holds none
Children(n) ==
    LET bt == nodes[n].bt IN
    CASE bt[1] \in {"Pointer", "Array"} -> <<bt[2]>>
      [] bt[1] = "Function" ->
            <<bt[2].ret>> \o [i \in 1..Len(bt[2].args) |-> bt[2].args[i][1]]
      [] OTHER -> <<>>

RECURSIVE ReachNodes(_)
\* the nodes reached from n without passing through a tag record
ReachNodes(n) == {n} \cup UNION {ReachNodes(Children(n)[i]) : i \in 1..Len(Children(n))}

RECURSIVE Occurrences(_), OccurrencesFrom(_, _)
\* the same nodes, each counted once for every path that leads to it
Occurrences(n) == 1 + OccurrencesFrom(Children(n), 1)
OccurrencesFrom(list, i) ==
    IF i > Len(list) THEN 0 ELSE Occurrences(list[i]) + OccurrencesFrom(list, i + 1)

RECURSIVE PendingFmt(_)
\* visits the rendering has still to make
PendingFmt(st) ==
    IF st = <<>> THEN 0
    ELSE (IF st[1][1] = "type" THEN Occurrences(st[1][2]) ELSE 0) + PendingFmt(Tail(st))

RECURSIVE PendingEq(_)
\* visits the comparison can still make
PendingEq(st) ==
    IF st = <<>> THEN 0
    ELSE (IF st[1][1] = "cmp" THEN MinOf(Occurrences(st[1][2]), Occurrences(st[1][3])) ELSE 0)
            + PendingEq(Tail(st))

IsTagType(n) == nodes[n].bt[1] \in {"Struct", "Union", "Enum"}
FmtModes == {"fmt", "fmt_done"}
EqModes == {"eq", "eq_true", "eq_false", "eq_panic"}

\* C10 as stated: a traversal visits no more Types than there are Type nodes
\* reachable from where it started without passing through a tag record.
C10_StepsWithinReachableNodes ==
    /\ tmode \in FmtModes => tsteps <= Cardinality(ReachNodes(troot[1]))
    /\ tmode \in EqModes =>
          tsteps <= Cardinality(ReachNodes(troot[1]) \cup ReachNodes(troot[2]))

\* C10: rendering and comparing Types end, on a graph cyclic through a tag
\* record too: a tag type is a leaf of both (rendering writes the kind and
\* the name, comparing compares the handles), and the Types visited and still
\* to visit never are more than the nodes reachable without passing through a
\* tag record, a node counted once for every path that leads to it.
C10_TraversalsBounded ==
    /\ tmode \in FmtModes => tsteps + PendingFmt(tstack) = Occurrences(troot[1])
    /\ tmode \in EqModes =>
          tsteps + PendingEq(tstack) <= MinOf(Occurrences(troot[1]), Occurrences(troot[2]))
    /\ tmode \in {"fmt", "eq"} => tstack # <<>> /\ tstack[1][1] \in {"type", "cmp"}
    /\ (tmode = "fmt_done" /\ IsTagType(troot[1])) =>
          /\ tsteps = 1
          /\ tout = Qualifiers_fmt(nodes[troot[1]].q) \o <<trec.kind, " ">> \o Quoted(trec.name)
    /\ (tmode \in EqModes \ {"eq"} /\ IsTagType(troot[1]) /\ IsTagType(troot[2])) =>
          /\ tsteps = 1
          /\ tmode = "eq_true" <=>
                /\ nodes[troot[1]].bt[1] = nodes[troot[2]].bt[1]
                /\ nodes[troot[1]].bt[2].origin = nodes[troot[2]].bt[2].origin
                /\ nodes[troot[1]].q = nodes[troot[2]].q

\* a pointer to a struct whose completed record has a member of that very
\* pointer type has been rendered to the end
C10_Witness ==
    /\ tmode = "fmt_done"
    /\ nodes[troot[1]].bt[1] = "Pointer"
    /\ IsTagType(nodes[troot[1]].bt[2])
    /\ is_some(trec.items)
    /\ \E i \in 1..Len(trec.items[1]) : trec.items[1][i][1] = troot[1]
    /\ tsteps = 2

====
